---- MODULE Spec2Model ----
(***************************************************************************)
(* Model of src/src/canada_major_transfers/main.py: the pipeline that      *)
(* cleans the raw HTML tables (clean_table), aggregates them into the      *)
(* module-level data_dict (aggregate_data) and projects data_dict for the  *)
(* Dash callback (build_long_dataframe, update_graph).                     *)
(*                                                                         *)
(* Text.  A string is a sequence of pieces.  A row label or a title is a   *)
(* sequence of tokens: " " (one whitespace character), a digit "0".."9",   *)
(* or a word, which stands for a run of characters that neither starts nor *)
(* ends with whitespace or a digit.  A cell text is a sequence of single   *)
(* characters.  Column names are only ever compared for equality by the    *)
(* code and stay atomic strings.                                           *)
(*                                                                         *)
(* Numbers.  A table value is Num(n) or NaN (what pd.to_numeric gives with *)
(* errors='coerce' on a text it cannot parse).                             *)
(***************************************************************************)
EXTENDS Integers, Sequences, FiniteSets, TLC

VARIABLES titles, province_names, i, table, data_dict, errors, pc, query, result

vars == <<titles, province_names, i, table, data_dict, errors, pc, query, result>>

----------------------------------------------------------------------------
(* Bounds: number of raw tables, number of rows of a raw table *)

MaxTables == 2

MaxRows == 2

----------------------------------------------------------------------------
(* Module constants of main.py *)

chart_titles ==
  << <<"Federal Support to ", "Provinces and Territories">>,
     <<"Federal Support to ", "Newfoundland and Labrador">>,
     <<"Federal Support to ", "Prince Edward Island">>,
     <<"Federal Support to ", "Nova Scotia">>,
     <<"Federal Support to ", "New Brunswick">>,
     <<"Federal Support to ", "Quebec">>,
     <<"Federal Support to ", "Ontario">>,
     <<"Federal Support to ", "Manitoba">>,
     <<"Federal Support to ", "Saskatchewan">>,
     <<"Federal Support to ", "Alberta">>,
     <<"Federal Support to ", "British Columbia">>,
     <<"Federal Support to ", "Yukon">>,
     <<"Federal Support to ", "Northwest Territories">>,
     <<"Federal Support to ", "Nunavut">> >>

years ==
  << "2016-17", "2017-18", "2018-19", "2019-20", "2020-21",
     "2021-22", "2022-23", "2023-24", "2024-25", "2025-26" >>

components ==
  << <<"Canada Health Transfer">>,
     <<"Canada Social Transfer">>,
     <<"Equalization">>,
     <<"Offshore Offsets">>,
     <<"Territorial Formula Financing">>,
     <<"Total - Federal Support">>,
     <<"Per Capita Allocation (dollars)">> >>

----------------------------------------------------------------------------
(* Generic helpers *)

Range(s) == { s[k] : k \in DOMAIN s }

IsInjective(s) == \A a, b \in DOMAIN s : s[a] = s[b] => a = b

\* Position of the first occurrence of x in s (0 when absent).
IndexOf(s, x) ==
  IF x \in Range(s) THEN CHOOSE k \in DOMAIN s : s[k] = x /\ \A j \in 1..(k-1) : s[j] # x
  ELSE 0

RECURSIVE Flatten(_)
Flatten(ss) == IF ss = <<>> THEN <<>> ELSE Head(ss) \o Flatten(Tail(ss))

\* Increasing enumeration of a finite set of integers.
RECURSIVE SortedSeq(_)
SortedSeq(S) ==
  IF S = {} THEN <<>>
  ELSE LET m == CHOOSE x \in S : \A y \in S : x <= y
       IN <<m>> \o SortedSeq(S \ {m})

Digits == {"0", "1", "2", "3", "4", "5", "6", "7", "8", "9"}

IsDigit(t) == t \in Digits

Spaces == {" "}

DigitVal(t) ==
  CASE t = "0" -> 0 [] t = "1" -> 1 [] t = "2" -> 2 [] t = "3" -> 3 [] t = "4" -> 4
    [] t = "5" -> 5 [] t = "6" -> 6 [] t = "7" -> 7 [] t = "8" -> 8 [] t = "9" -> 9

\* Number of trailing pieces of s that belong to the set P.
TrailingCount(s, P) ==
  CHOOSE k \in 0..Len(s) :
    /\ \A j \in (Len(s) - k + 1)..Len(s) : s[j] \in P
    /\ (k < Len(s) => s[Len(s) - k] \notin P)

LeadingCount(s, P) ==
  CHOOSE k \in 0..Len(s) :
    /\ \A j \in 1..k : s[j] \in P
    /\ (k < Len(s) => s[k + 1] \notin P)

\* str.strip()
Strip(s) ==
  LET a == LeadingCount(s, Spaces)
      b == TrailingCount(s, Spaces)
  IN IF a = Len(s) THEN <<>> ELSE SubSeq(s, a + 1, Len(s) - b)

\* str.lower(), word by word
LowerTok(t) ==
  CASE t = "Canada Health Transfer" -> "canada health transfer"
    [] t = "CANADA HEALTH TRANSFER" -> "canada health transfer"
    [] t = "Canada Social Transfer" -> "canada social transfer"
    [] t = "Equalization" -> "equalization"
    [] t = "EQUALIZATION" -> "equalization"
    [] t = "Offshore Offsets" -> "offshore offsets"
    [] t = "Territorial Formula Financing" -> "territorial formula financing"
    [] t = "Total - Federal Support" -> "total - federal support"
    [] t = "Per Capita Allocation (dollars)" -> "per capita allocation (dollars)"
    [] t = "Other" -> "other"
    [] t = "Aggregate" -> "aggregate"
    [] t = "Newfoundland and Labrador" -> "newfoundland and labrador"
    [] t = "Ontario" -> "ontario"
    [] OTHER -> t

Lower(s) == [k \in DOMAIN s |-> LowerTok(s[k])]

----------------------------------------------------------------------------
(* Table values *)

Num(n) == [nan |-> FALSE, v |-> n]

NaN == [nan |-> TRUE, v |-> 0]

----------------------------------------------------------------------------
(* extract_province_name *)

extract_province_name(title) ==
  IF \E k \in DOMAIN title : title[k] = "Provinces and Territories"
  THEN <<"Aggregate">>
  ELSE Strip(SelectSeq(title, LAMBDA t : t # "Federal Support to "))

----------------------------------------------------------------------------
(* clean_table *)

\* .str.replace(r"\s*\d+$", "", regex=True): drop a trailing run of digits
\* together with the whitespace in front of it.
strip_trailing_digits(label) ==
  LET d == TrailingCount(label, Digits)
      rest == SubSeq(label, 1, Len(label) - d)
  IN IF d = 0 THEN label
     ELSE SubSeq(rest, 1, Len(rest) - TrailingCount(rest, Spaces))

\* The label pipeline of line 74.
normalize_label(label) == Strip(strip_trailing_digits(label))

\* replace_dash without the replacement of "-".
replace_dash_omitted(cell) == cell

\* df.replace("-", 0) followed by astype(str): a cell that is exactly "-"
\* becomes the text "0".
replace_dash(cell) == IF cell = <<"-">> THEN <<"0">> ELSE cell

\* .str.replace(r"[\$,]", "", regex=True)
strip_currency(cell) == SelectSeq(cell, LAMBDA ch : ch \notin {"$", ","})

RECURSIVE DecVal(_)
DecVal(s) == IF s = <<>> THEN 0 ELSE 10 * DecVal(SubSeq(s, 1, Len(s) - 1)) + DigitVal(s[Len(s)])

AllDigits(s) == s # <<>> /\ \A k \in DOMAIN s : IsDigit(s[k])

\* pd.to_numeric(..., errors='coerce') on one text
to_numeric(s) ==
  IF AllDigits(s) THEN Num(DecVal(s))
  ELSE IF s # <<>> /\ s[1] = "-" /\ AllDigits(Tail(s)) THEN Num(0 - DecVal(Tail(s)))
  ELSE NaN

coerce_cell(cell) == to_numeric(strip_currency(replace_dash(cell)))

Failure(e) == [ok |-> FALSE, error |-> e, df |-> <<>>]

Success(df) == [ok |-> TRUE, error |-> "", df |-> df]

clean_table(df) ==
  IF Len(df.columns) = 0 THEN Failure("IndexError")
  ELSE
    LET renamed == [k \in DOMAIN df.columns |->
                      IF df.columns[k] = df.columns[1] THEN "Component" ELSE df.columns[k]]
        datacols == Tail(renamed)
    IN IF Cardinality({k \in DOMAIN renamed : renamed[k] = "Component"}) > 1
       THEN Failure("AttributeError")
       ELSE IF ~IsInjective(datacols) THEN Failure("AttributeError")
       ELSE Success([index |-> [r \in DOMAIN df.rows |-> normalize_label(df.rows[r][1])],
                     columns |-> datacols,
                     data |-> [r \in DOMAIN df.rows |->
                                 [c \in DOMAIN datacols |-> coerce_cell(df.rows[r][c + 1])]]])

----------------------------------------------------------------------------
(* aggregate_data *)

\* clean_df[clean_df.index.str.lower().isin(desired)]
select_rows(df, comps) ==
  LET desired == { Lower(comps[k]) : k \in DOMAIN comps }
      keep == SortedSeq({ r \in DOMAIN df.index : Lower(df.index[r]) \in desired })
  IN [index |-> [k \in DOMAIN keep |-> df.index[keep[k]]],
      columns |-> df.columns,
      data |-> [k \in DOMAIN keep |-> df.data[keep[k]]]]

\* reindex_rows that takes the first row of each label instead of raising on
\* duplicate labels.
reindex_rows_first_match(df, labels) ==
  Success([index |-> labels,
           columns |-> df.columns,
           data |-> [k \in DOMAIN labels |->
                       IF labels[k] \in Range(df.index)
                       THEN df.data[IndexOf(df.index, labels[k])]
                       ELSE [c \in DOMAIN df.columns |-> Num(0)]]])

\* DataFrame.reindex(labels, fill_value=0): raises on duplicate row labels
reindex_rows(df, labels) ==
  IF ~IsInjective(df.index) THEN Failure("ValueError")
  ELSE Success([index |-> labels,
                columns |-> df.columns,
                data |-> [k \in DOMAIN labels |->
                            IF labels[k] \in Range(df.index)
                            THEN df.data[IndexOf(df.index, labels[k])]
                            ELSE [c \in DOMAIN df.columns |-> Num(0)]]])

\* DataFrame.reindex(columns=cols, fill_value=0)
reindex_columns(df, cols) ==
  IF ~IsInjective(df.columns) THEN Failure("ValueError")
  ELSE Success([index |-> df.index,
                columns |-> cols,
                data |-> [r \in DOMAIN df.index |->
                            [k \in DOMAIN cols |->
                               IF cols[k] \in Range(df.columns)
                               THEN df.data[r][IndexOf(df.columns, cols[k])]
                               ELSE Num(0)]]])

\* The body of the try block (lines 90-97) for one table.
process_table(tbl) ==
  LET c == clean_table(tbl)
  IN IF ~c.ok THEN c
     ELSE LET r == reindex_rows(select_rows(c.df, components), components)
          IN IF ~r.ok THEN r ELSE reindex_columns(r.df, years)

\* data_dict as an insertion-ordered mapping: a sequence of (key, val) entries.
Keys(d) == [k \in DOMAIN d |-> d[k].key]

HasKey(d, key) == \E k \in DOMAIN d : d[k].key = key

Get(d, key) == d[CHOOSE k \in DOMAIN d : d[k].key = key].val

DictSet(d, key, val) ==
  IF HasKey(d, key)
  THEN [k \in DOMAIN d |-> IF d[k].key = key THEN [key |-> key, val |-> val] ELSE d[k]]
  ELSE Append(d, [key |-> key, val |-> val])

\* store_result that keeps a zero-filled table for a table that failed.
store_result_zero_fill(d, name, res) ==
  DictSet(d, name,
          IF res.ok THEN res.df
          ELSE [index |-> components, columns |-> years,
                data |-> [r \in DOMAIN components |-> [c \in DOMAIN years |-> Num(0)]]])

\* Lines 98-100: store on success, print and go on otherwise.
store_result(d, name, res) == IF res.ok THEN DictSet(d, name, res.df) ELSE d

----------------------------------------------------------------------------
(* build_long_dataframe and update_graph *)

\* df.at[comp, year]
df_at(df, comp, year) ==
  IF comp \in Range(df.index) /\ year \in Range(df.columns)
  THEN [ok |-> TRUE, val |-> df.data[IndexOf(df.index, comp)][IndexOf(df.columns, year)]]
  ELSE [ok |-> FALSE, val |-> NaN]

\* build_long_dataframe without the try/except around the lookup: a year that
\* is no column raises.
build_long_dataframe_unguarded(d, year, include_aggregate) ==
  LET provrows(e) ==
        IF (~include_aggregate) /\ Lower(e.key) = <<"aggregate">> THEN <<>>
        ELSE [k \in DOMAIN components |->
                [Province |-> e.key, Component |-> components[k],
                 Value |-> df_at(e.val, components[k], year).val]]
      rows == Flatten([k \in DOMAIN d |-> provrows(d[k])])
  IN IF rows # <<>> /\ year \notin Range(years)
     THEN [status |-> "InvalidYearError", rows |-> <<>>, data_dict |-> d]
     ELSE [status |-> "ok", rows |-> rows, data_dict |-> d]

\* build_long_dataframe whose except branch writes the fallback 0 back with
\* df.at[comp, year] = 0, which adds the year as a column.
build_long_dataframe_writing(d, year, include_aggregate) ==
  LET provrows(e) ==
        IF (~include_aggregate) /\ Lower(e.key) = <<"aggregate">> THEN <<>>
        ELSE [k \in DOMAIN components |->
                LET a == df_at(e.val, components[k], year)
                IN [Province |-> e.key, Component |-> components[k],
                    Value |-> IF a.ok THEN a.val ELSE Num(0)]]
      written(e) ==
        IF ((~include_aggregate) /\ Lower(e.key) = <<"aggregate">>)
           \/ year \in Range(e.val.columns)
        THEN e
        ELSE [key |-> e.key,
              val |-> [index |-> e.val.index,
                       columns |-> Append(e.val.columns, year),
                       data |-> [r \in DOMAIN e.val.data |-> Append(e.val.data[r], Num(0))]]]
  IN [status |-> "ok",
      rows |-> Flatten([k \in DOMAIN d |-> provrows(d[k])]),
      data_dict |-> [k \in DOMAIN d |-> written(d[k])]]

\* Lines 133-144.  The frame is the list of row records; data_dict is the
\* module-level dictionary as the call leaves it.
build_long_dataframe(d, year, include_aggregate) ==
  LET provrows(e) ==
        IF (~include_aggregate) /\ Lower(e.key) = <<"aggregate">> THEN <<>>
        ELSE [k \in DOMAIN components |->
                LET a == df_at(e.val, components[k], year)
                IN [Province |-> e.key, Component |-> components[k],
                    Value |-> IF a.ok THEN a.val ELSE Num(0)]]
  IN [status |-> "ok",
      rows |-> Flatten([k \in DOMAIN d |-> provrows(d[k])]),
      data_dict |-> d]

\* Line 188
include_flag(aggregate_val) ==
  IF aggregate_val = <<"None">> THEN TRUE ELSE "include" \in Range(aggregate_val)

\* update_graph that lays the rows of each jurisdiction out in the order of
\* selected_components.
update_graph_selection_order(d, selected_year, selected_components, aggregate_val) ==
  LET long == build_long_dataframe(d, selected_year, include_flag(aggregate_val))
      provs == SelectSeq(Keys(d), LAMBDA p : \E k \in DOMAIN long.rows : long.rows[k].Province = p)
      pick(p, c) == long.rows[CHOOSE k \in DOMAIN long.rows :
                                long.rows[k].Province = p /\ long.rows[k].Component = c]
  IN IF long.rows = <<>>
     THEN [status |-> "KeyError", rows |-> <<>>, data_dict |-> long.data_dict]
     ELSE [status |-> "ok",
           rows |-> Flatten([j \in DOMAIN provs |->
                               [k \in DOMAIN selected_components |->
                                  pick(provs[j], selected_components[k])]]),
           data_dict |-> long.data_dict]

\* Lines 186-191: the projection handed to the chart.
update_graph(d, selected_year, selected_components, aggregate_val) ==
  LET long == build_long_dataframe(d, selected_year, include_flag(aggregate_val))
  IN IF long.status # "ok" THEN long
     ELSE IF long.rows = <<>>
     THEN [status |-> "KeyError", rows |-> <<>>, data_dict |-> long.data_dict]
     ELSE [status |-> "ok",
           rows |-> SelectSeq(long.rows, LAMBDA r : r.Component \in Range(selected_components)),
           data_dict |-> long.data_dict]

----------------------------------------------------------------------------
(* Inputs *)

U == "Unnamed: 0"

E1 == <<"Equalization", " ", "1">>

E2 == <<"Equalization", " ", "2">>

EU == <<"EQUALIZATION">>

CH == <<" ", "Canada Health Transfer">>

c100 == <<"$", "1", "0", "0">>

cdash == <<"-">>

c1234 == <<"$", "1", ",", "2", "3", "4">>

cna == <<"n", "/", "a">>

cempty == <<>>

c7 == <<"7">>

\* The header and the row of the two-table scenario.
HeaderS == <<U, "2016-17", "2017-18">>

RowS == <<E1, c100, cdash>>

\* A wider table: a column outside the canonical years, every kind of cell text.
HeaderW == <<U, "2015-16", "2016-17", "2017-18", "2018-19", "2019-20", "2020-21">>

CellsA == <<c7, c100, cdash, c1234, cna, cempty>>

CellsB == <<c100, c7, c1234, cdash, c7, c100>>

\* A table with a second column that is already called "Component".
HeaderC == <<U, "2016-17", "Component">>

Headers == {HeaderS, HeaderW, HeaderC}

RowsOf(h) ==
  IF h = HeaderW THEN { <<E1>> \o CellsA, <<E2>> \o CellsA, <<EU>> \o CellsA, <<CH>> \o CellsB }
  ELSE { RowS }

RowSeqs(R) == UNION { [1..n -> R] : n \in 0..MaxRows }

RawTables == { [columns |-> hr[1], rows |-> hr[2]] :
                 hr \in UNION { {h} \X RowSeqs(RowsOf(h)) : h \in Headers } }

\* The section titles handed to extract_province_name, one per table and in
\* page order: the national table, Ontario, Nunavut.
TitleIdx == <<1, 7, 14>>

TitleSeqs ==
  { [k \in 1..n |-> chart_titles[TitleIdx[k]]] : n \in 0..MaxTables } 

QueryYears == {"2016-17", "2017-18", "1999-00"}

QueryComps == { components[3], components[1] }

\* A checklist value: every ordering of every subset of the offered components.
Selections ==
  { s \in UNION { [1..n -> QueryComps] : n \in 0..Cardinality(QueryComps) } : IsInjective(s) }

\* The value of the one-option checklist: nothing ticked, or "include" ticked.
AggregateVals == { <<>>, <<"include">> }

NoTable == [columns |-> <<>>, rows |-> <<>>]

NoQuery == [year |-> "", components |-> <<>>, aggregate |-> <<>>, asked |-> FALSE]

NoResult == [status |-> "none", rows |-> <<>>]

----------------------------------------------------------------------------
(* State machine *)

Init ==
  /\ titles \in TitleSeqs
  /\ province_names = [k \in DOMAIN titles |-> extract_province_name(titles[k])]
  /\ i = 0
  /\ table = NoTable
  /\ data_dict = <<>>
  /\ errors = {}
  /\ pc = "aggregate"
  /\ query = NoQuery
  /\ result = NoResult

\* One iteration of the loop of aggregate_data.  The raw table is an input:
\* it is drawn when the iteration reads it and stays in table, the loop
\* variable, until the function returns.
AggregateStep ==
  /\ pc = "aggregate"
  /\ i < Len(titles)
  /\ \E t \in RawTables :
       \E res \in {process_table(t)} :
          /\ table' = t
          /\ data_dict' = store_result(data_dict, province_names[i + 1], res)
          /\ errors' = IF res.ok THEN errors ELSE errors \cup {i}
  /\ i' = i + 1
  /\ UNCHANGED <<titles, province_names, pc, query, result>>

\* aggregate_data returns; the Dash app starts serving callbacks.
AggregateReturn ==
  /\ pc = "aggregate"
  /\ i = Len(titles)
  /\ pc' = "serve"
  /\ table' = NoTable
  /\ UNCHANGED <<titles, province_names, i, data_dict, errors, query, result>>

\* One invocation of the update_graph callback.
UpdateGraph ==
  /\ pc = "serve"
  /\ \E y \in QueryYears, sel \in Selections, agg \in AggregateVals :
       \E r \in {update_graph(data_dict, y, sel, agg)} :
          /\ query' = [year |-> y, components |-> sel, aggregate |-> agg, asked |-> TRUE]
          /\ result' = [status |-> r.status, rows |-> r.rows]
          /\ data_dict' = r.data_dict
  /\ UNCHANGED <<titles, province_names, i, table, errors, pc>>

Next == AggregateStep \/ AggregateReturn \/ UpdateGraph

Spec == Init /\ [][Next]_vars

----------------------------------------------------------------------------
(* Vocabulary of the properties *)

\* The raw table of the iteration that has just run was stored.
LastStored == pc = "aggregate" /\ i >= 1 /\ (i - 1) \notin errors

\* The raw table of the iteration that has just run was skipped.
LastSkipped == pc = "aggregate" /\ i >= 1 /\ (i - 1) \in errors

LastName == province_names[i]

Answered == pc = "serve" /\ query.asked

\* What a cell text means as a number (0 for a text that is no number).
CellNumber(cell) ==
  CASE cell = c100 -> 100
    [] cell = c1234 -> 1234
    [] cell = c7 -> 7
    [] OTHER -> 0

IsNumberText(cell) == cell \in {c100, c1234, c7}

\* The value stored for jurisdiction name at (comp, year); NaN when absent.
StoredAt(name, comp, year) == df_at(Get(data_dict, name), comp, year).val

\* Rows of the raw table whose label, footnote and blanks removed, is comp
\* up to letter case.
RowsFor(comp) ==
  { r \in DOMAIN table.rows : Lower(normalize_label(table.rows[r][1])) = Lower(comp) }

\* Data columns of the raw table that carry a canonical fiscal year.
YearColumns == { k \in 2..Len(table.columns) : table.columns[k] \in Range(years) }

\* The jurisdictions a query with this aggregate value lists.
Listed(aggregate_val) ==
  SelectSeq(Keys(data_dict),
            LAMBDA p : "include" \in Range(aggregate_val) \/ p # <<"Aggregate">>)

Pairs(rows) == [k \in DOMAIN rows |-> <<rows[k].Province, rows[k].Component>>]

Equalization == <<"Equalization">>

CHT == <<"Canada Health Transfer">>

----------------------------------------------------------------------------
(* C1 *)

\* C1: every stored jurisdiction table has a defined, numeric (not NaN) value
\* at every canonical component and every canonical fiscal year.
C1_EveryCellNumeric ==
  \A k \in DOMAIN data_dict :
    \A c \in DOMAIN components, y \in DOMAIN years :
      LET a == df_at(data_dict[k].val, components[c], years[y])
      IN a.ok /\ ~a.val.nan

----------------------------------------------------------------------------
(* C2 *)

\* C2: when exactly one table fails, aggregate_data returns n - 1 entries:
\* every table but the failed one has its jurisdiction in the dataset, the
\* failed one has none.
C2_OneFailureOmitsOnlyThatTable ==
  (pc = "serve" /\ Cardinality(errors) = 1) =>
     /\ i = Len(titles)
     /\ Len(data_dict) = Len(titles) - 1
     /\ \A k \in DOMAIN titles :
          HasKey(data_dict, province_names[k]) <=> (k - 1) \notin errors

\* The first of two tables failed and the second is in the dataset.
C2_Witness ==
  /\ pc = "serve"
  /\ Len(titles) >= 2
  /\ errors = {0}
  /\ HasKey(data_dict, province_names[2])
  /\ ~HasKey(data_dict, province_names[1])

----------------------------------------------------------------------------
(* C3 *)

\* C3 (as stated): a query for a year outside the canonical list fails with
\* InvalidYearError.
C3_InvalidYearRaises ==
  (Answered /\ query.year \notin Range(years)) => result.status = "InvalidYearError"

\* C3 (amended): a query for a year outside the canonical list raises no
\* InvalidYearError; it is answered like any other query, with the value 0
\* in every row.
C3_InvalidYearYieldsZeros ==
  (Answered /\ query.year \notin Range(years)) =>
     /\ result.status # "InvalidYearError"
     /\ result.status = "ok" <=> Listed(query.aggregate) # <<>>
     /\ result.status = "ok" =>
          /\ Len(result.rows) = Len(Listed(query.aggregate)) * Len(query.components)
          /\ \A k \in DOMAIN result.rows : result.rows[k].Value = Num(0)

\* A query for 1999-00 was answered with rows although the dataset holds 100
\* for Equalization in 2016-17.
C3_Witness ==
  /\ Answered
  /\ query.year = "1999-00"
  /\ result.status = "ok"
  /\ \E k \in DOMAIN result.rows :
       /\ result.rows[k].Component = Equalization
       /\ StoredAt(result.rows[k].Province, Equalization, "2016-17") = Num(100)

----------------------------------------------------------------------------
(* C4 *)

\* C4 (as stated): the rows go by jurisdiction in input order and, within a
\* jurisdiction, by component in the order of the requested subset.
C4_RequestedOrder ==
  (Answered /\ result.status = "ok") =>
     Pairs(result.rows) =
       Flatten([j \in DOMAIN Listed(query.aggregate) |->
                  [k \in DOMAIN query.components |->
                     <<Listed(query.aggregate)[j], query.components[k]>>]])

\* C4 (amended): the rows go by jurisdiction in input order and, within a
\* jurisdiction, by component in the order of the canonical component list,
\* whatever the order of the requested subset.
C4_CanonicalOrder ==
  (Answered /\ result.status = "ok") =>
     \A p, q \in DOMAIN result.rows :
       p < q =>
         LET jp == IndexOf(province_names, result.rows[p].Province)
             jq == IndexOf(province_names, result.rows[q].Province)
         IN /\ jp >= 1
            /\ jp <= jq
            /\ jp = jq => IndexOf(components, result.rows[p].Component)
                            < IndexOf(components, result.rows[q].Component)

\* Equalization was requested before Canada Health Transfer and two
\* jurisdictions answered.
C4_Witness ==
  /\ Answered
  /\ query.components = <<Equalization, CHT>>
  /\ result.status = "ok"
  /\ Len(result.rows) = 4
  /\ result.rows[1].Province # result.rows[4].Province

----------------------------------------------------------------------------
(* C5 *)

\* C5: every query, on an empty dataset too, returns a projection with
\* exactly one row per listed jurisdiction and requested component, and no
\* other row.
C5_OneRowPerPair ==
  Answered =>
     /\ result.status = "ok"
     /\ \A p \in Range(Listed(query.aggregate)), c \in Range(query.components) :
          Cardinality({ k \in DOMAIN result.rows :
                          result.rows[k].Province = p /\ result.rows[k].Component = c }) = 1
     /\ \A k \in DOMAIN result.rows :
          /\ result.rows[k].Province \in Range(Listed(query.aggregate))
          /\ result.rows[k].Component \in Range(query.components)

----------------------------------------------------------------------------
(* C6 *)

\* C6: in a stored table, a cell of a canonical component's row and a
\* canonical year's column holds 0 when its text is no number or is "-", and
\* the number when its text is one ("$1,234" is 1234).
C6_UnparsableCellIsZero ==
  LastStored =>
     \A c \in DOMAIN components :
       \A r \in DOMAIN table.rows, k \in YearColumns :
         normalize_label(table.rows[r][1]) = components[c] =>
           StoredAt(LastName, components[c], table.columns[k])
             = Num(CellNumber(table.rows[r][k]))

----------------------------------------------------------------------------
(* C7 *)

\* C7: the one row whose label is a canonical component up to letter case is
\* stored under the canonical name with its coerced values, and a component
\* has an all-zero synthesized row only when no row matches it.
C7_CaseInsensitiveRowStored ==
  LastStored =>
     \A c \in DOMAIN components :
       \A r \in RowsFor(components[c]) :
         RowsFor(components[c]) = {r} =>
           \A k \in YearColumns :
             StoredAt(LastName, components[c], table.columns[k])
               = coerce_cell(table.rows[r][k])

----------------------------------------------------------------------------
(* C8 *)

ScenarioTable == [columns |-> HeaderS, rows |-> <<RowS>>]

\* The jurisdiction table of the scenario: 100 for Equalization in 2016-17,
\* 0 everywhere else.
ScenarioStored ==
  [index |-> components,
   columns |-> years,
   data |-> [r \in DOMAIN components |->
               [c \in DOMAIN years |->
                  IF r = 3 /\ c = 1 THEN Num(100) ELSE Num(0)]]]

ScenarioDataset ==
  << [key |-> <<"Aggregate">>, val |-> ScenarioStored],
     [key |-> <<"Ontario">>, val |-> ScenarioStored] >>

ScenarioRows(n) ==
  << [Province |-> <<"Aggregate">>, Component |-> Equalization, Value |-> Num(n)],
     [Province |-> <<"Ontario">>, Component |-> Equalization, Value |-> Num(n)] >>

\* C8: titles give "Aggregate" and the bare jurisdiction name; a row label
\* with a footnote number is stored under the component without it, with the
\* number its cell text spells ("-" is 0); a projection value is the stored
\* value; and the two-table scenario projects to 0, 0 for 2017-18 and to
\* 100, 100 for 2016-17.
C8_EndToEnd ==
  /\ \A k \in DOMAIN titles :
       /\ titles[k] = <<"Federal Support to ", "Provinces and Territories">>
            => province_names[k] = <<"Aggregate">>
       /\ titles[k] = <<"Federal Support to ", "Ontario">>
            => province_names[k] = <<"Ontario">>
       /\ titles[k] = <<"Federal Support to ", "Nunavut">>
            => province_names[k] = <<"Nunavut">>
  /\ LastStored =>
       \A c \in DOMAIN components, d \in Digits :
         \A r \in DOMAIN table.rows, k \in YearColumns :
           ( /\ table.rows[r][1] = components[c] \o <<" ", d>>
             /\ (IsNumberText(table.rows[r][k]) \/ table.rows[r][k] = cdash) )
           => StoredAt(LastName, components[c], table.columns[k])
                = Num(CellNumber(table.rows[r][k]))
  /\ (pc = "aggregate" /\ i >= 1 /\ table = ScenarioTable) =>
       /\ (i - 1) \notin errors
       /\ Get(data_dict, LastName) = ScenarioStored
  /\ (Answered /\ result.status = "ok" /\ query.year \in Range(years)) =>
       \A k \in DOMAIN result.rows :
         result.rows[k].Value
           = StoredAt(result.rows[k].Province, result.rows[k].Component, query.year)
  /\ (Answered /\ data_dict = ScenarioDataset
        /\ query.components = <<Equalization>> /\ query.aggregate = <<"include">>) =>
       /\ query.year = "2017-18" => (result.status = "ok" /\ result.rows = ScenarioRows(0))
       /\ query.year = "2016-17" => (result.status = "ok" /\ result.rows = ScenarioRows(100))

\* The scenario's dataset was built as Aggregate and Ontario and queried for
\* Equalization in 2016-17 with the aggregate included.
C8_Witness ==
  /\ Answered
  /\ titles = << <<"Federal Support to ", "Provinces and Territories">>,
                 <<"Federal Support to ", "Ontario">> >>
  /\ data_dict = ScenarioDataset
  /\ query.year = "2016-17"
  /\ query.components = <<Equalization>>
  /\ query.aggregate = <<"include">>
  /\ result.rows = ScenarioRows(100)

----------------------------------------------------------------------------
(* C9 *)

----------------------------------------------------------------------------
(* C10 *)

\* C10: every stored table has the canonical components as its rows and the
\* canonical fiscal years as its columns, each once and in order, and a raw
\* table with two rows of the same canonical component is not stored.
C10_StoredShape ==
  /\ \A k \in DOMAIN data_dict :
       LET df == data_dict[k].val
       IN /\ df.index = components
          /\ df.columns = years
          /\ DOMAIN df.data = DOMAIN components
          /\ \A r \in DOMAIN df.data : DOMAIN df.data[r] = DOMAIN years
  /\ (pc = "aggregate" /\ i >= 1) =>
       ( (\E r1, r2 \in DOMAIN table.rows :
            /\ r1 # r2
            /\ normalize_label(table.rows[r1][1]) = normalize_label(table.rows[r2][1])
            /\ normalize_label(table.rows[r1][1]) \in Range(components))
         => (LastSkipped /\ ~HasKey(data_dict, LastName)) )

\* A table with the rows "Equalization 1" and "Equalization 2" was skipped
\* while an earlier table is stored.
C10_Witness ==
  /\ LastSkipped
  /\ \E r1, r2 \in DOMAIN table.rows : table.rows[r1][1] = E1 /\ table.rows[r2][1] = E2
  /\ Len(data_dict) = 1

====
